---------------------------- MODULE Spec2Model ----------------------------
(***************************************************************************)
(* Model of data_monitor.DataMonitor (src/data_monitor.py): a handle in    *)
(* the caller's process, the multiprocessing queues created by start(),    *)
(* and the worker processes running show()/animate().                      *)
(*                                                                         *)
(* Processes ("readers"): 0 is the producer (the caller's process), i >= 1 *)
(* is the worker created by the i-th call of start().  Every process has   *)
(* its own copy of the handle, hence its own `_data` field (data[r]).      *)
(*                                                                         *)
(* A queue element carries the value passed to set() and, as a history     *)
(* tag the program does not have, the ordinal of the set() call that put   *)
(* it (id); the initial data of the constructor has id 0.                  *)
(***************************************************************************)
EXTENDS Integers, Sequences, FiniteSets, TLC

\* ---------------------------------------------------------------- bounds
MaxStarts == 2      \* calls of start() in one run
MaxSets == 2        \* calls of the data setter in one run
MaxVal == 2         \* distinct Samples the producer may pass
MaxLines == 3       \* series kept on axes that are never cleared

Workers == 1..MaxStarts
Readers == 0..MaxStarts
Producer == 0

NoneVal == 0                                   \* Python's None
Item(i, v) == [id |-> i, val |-> v]
NoRet == Item(-1, -1)                          \* "the getter was not read yet"

\* A Sample is abstracted to its shape.  val = n >= 1: a Sample of rows, the
\* x-row followed by n y-rows of the same length.  val = -n <= -1: one data
\* point of scalars, x followed by n y-values.  val = 0: None.
RowVals == 1..MaxVal
ScalarVals == {-n : n \in 1..MaxVal}

\* A channel descriptor: which keys the dict holds.
Hints(l, c) == [label |-> l, color |-> c]
NoHints == Hints(FALSE, FALSE)                 \* {}
\* The channels argument: None, or a list of descriptors.
NoChannels == [none |-> TRUE, list |-> <<>>]
ChannelList(l) == [none |-> FALSE, list |-> l]
\* One pyplot call: the function's name and its positional arguments.
Call(op, args) == [op |-> op, args |-> args]
\* An entry of plt_kwargs: attribute -> (args, kwargs).
Directive(attr, args) == [attr |-> attr, args |-> args]
\* The attributes used below that matplotlib.pyplot has.
PltAttributes == {"xlim", "ylim"}

VARIABLES
    bound,          \* the caller still holds a reference to the handle
    scope,          \* "none" | "inside" | "exited": the with-statement
    exitExc,        \* the with-body left through an exception
    destroyed,      \* __del__ has run
    data_queue,     \* handle._data_queue: index of the queue, 0 = None
    show_process,   \* handle._show_process: index of the worker, 0 = None
    delCalls,       \* the calls __del__ made, in order
    raised,         \* outcome of the producer's last operation
    queue,          \* queue[i]: content of the queue made by the i-th start()
    closed,         \* closed[i]: close() was called on queue i
    proc,           \* proc[i]: "none" | "running" | "crashed" | "terminated"
    joined,         \* joined[i]: join() returned for worker i
    wpc,            \* wpc[i]: "idle" | "get" | "draw": position in animate
    drawn,          \* drawn[i]: the Sample plotted by the last finished tick
    channels,       \* the channels argument of the constructor
    clear_axes,     \* the clear_axes argument of the constructor
    plt_kwargs,     \* the plt_kwargs argument, its entries in dict order
    axes,           \* axes[i]: the series on worker i's axes, in plot order
    legend,         \* legend[i]: worker i's axes show a legend
    pltCalls,       \* pltCalls[i]: the pyplot calls of worker i's last drawing
    data,           \* data[r]: the `_data` field of reader r's handle copy
    ret,            \* ret[r]: value returned by r's last read of `data`
    lastRead,       \* lastRead[r]: "none" when r did not read since the last
                    \* set(); else whether r's last read left its queue
                    \* empty ("left_empty") or not ("left_more")
    setLog,         \* history: setLog[n] = [val, q, live] of the n-th set():
                    \* the value, the queue, and whether the queue's worker
                    \* was running then
    deqBy           \* history: deqBy[n] = the readers that dequeued the value
                    \* of the n-th set(), in order

vars == <<bound, scope, exitExc, destroyed, data_queue, show_process,
          delCalls, raised, queue, closed, proc, joined, wpc, drawn, data,
          ret, lastRead, setLog, deqBy, channels, clear_axes, plt_kwargs,
          axes, legend, pltCalls>>

configVars == <<channels, clear_axes, plt_kwargs>>
renderVars == <<axes, legend, pltCalls>>
handleVars == <<bound, scope, exitExc, destroyed, data_queue, show_process,
                delCalls>>
readVars == <<data, ret, lastRead>>

\* ------------------------------------------------------------- __init__
\* The state after DataMonitor(data=d, channels=ch, clear_axes=cl,
\* plt_kwargs=kw).
Constructed(d, ch, cl, kw) ==
    /\ channels = ch
    /\ clear_axes = cl
    /\ plt_kwargs = kw
    /\ axes = [i \in Workers |-> <<>>]
    /\ legend = [i \in Workers |-> FALSE]
    /\ pltCalls = [i \in Workers |-> <<>>]
    /\ data = [r \in Readers |-> Item(0, d)]
    /\ bound = TRUE
    /\ scope = "none"
    /\ exitExc = FALSE
    /\ destroyed = FALSE
    /\ data_queue = 0
    /\ show_process = 0
    /\ delCalls = <<>>
    /\ raised = "none"
    /\ queue = [i \in Workers |-> <<>>]
    /\ closed = [i \in Workers |-> FALSE]
    /\ proc = [i \in Workers |-> "none"]
    /\ joined = [i \in Workers |-> FALSE]
    /\ wpc = [i \in Workers |-> "idle"]
    /\ drawn = [i \in Workers |-> NoRet]
    /\ ret = [r \in Readers |-> NoRet]
    /\ lastRead = [r \in Readers |-> "none"]
    /\ setLog = <<>>
    /\ deqBy = [n \in 1..MaxSets |-> <<>>]

\* The constructor's defaults (channels=None, plt_kwargs={}, clear_axes=True)
\* with no initial data or with a Sample of rows.
Init ==
    \E v \in NoneVal..MaxVal : Constructed(v, NoChannels, TRUE, <<>>)


\* ------------------------------------------------- the queue primitive
\* Queue() at start(): maxsize 0, so put() never waits for room.
PutBlocksBounded(q) == Len(q) >= 1
PutBlocks(q) == FALSE

\* self._data_queue.put(value)
QueuePut(q, item) == Append(q, item)

\* get(timeout=self.update_rate): returns an element, or raises Empty once
\* the timeout has elapsed; it never waits longer than that.
GetUnblocksNoTimeout(q) == q # <<>>
GetUnblocks(q) == TRUE

\* ---------------------------------------------------- the data getter
\* except (TimeoutError, Empty): pass
SwallowedAny(err) == TRUE
Swallowed(err) == err \in {"TimeoutError", "Empty"}

\* self._data = ...: the assignment is to the handle copy of the process
\* that runs the getter; v is the new value of reader r's _data.
DataAfterReadShared(r, v) == [x \in Readers |-> v]
DataAfterRead(r, v) == [data EXCEPT ![r] = v]

\* try: self._data = queue.get(timeout); except (TimeoutError, Empty): pass
\* return self._data
\* d is the reader's _data, q the queue content; the result holds the new
\* _data (which is also the value returned), the new queue content and
\* whether an element was dequeued.
DataGetterLifo(d, q) ==
    IF q = <<>>
    THEN [data |-> d, queue |-> q, hit |-> FALSE]
    ELSE [data |-> q[Len(q)], queue |-> SubSeq(q, 1, Len(q) - 1), hit |-> TRUE]
DataGetterPeek(d, q) ==
    IF q = <<>>
    THEN [data |-> d, queue |-> q, hit |-> FALSE]
    ELSE [data |-> Head(q), queue |-> q, hit |-> TRUE]
DataGetterResetOnTimeout(d, q) ==
    IF q = <<>>
    THEN [data |-> Item(0, NoneVal), queue |-> q, hit |-> FALSE]
    ELSE [data |-> Head(q), queue |-> Tail(q), hit |-> TRUE]
DataGetter(d, q) ==
    IF q = <<>>
    THEN [data |-> d, queue |-> q, hit |-> FALSE]
    ELSE [data |-> Head(q), queue |-> Tail(q), hit |-> TRUE]

\* The read of `data` by reader r on queue i, with its history.
ReadData(r, i) ==
    LET g == DataGetter(data[r], queue[i]) IN
    /\ GetUnblocks(queue[i])
    /\ data' = DataAfterRead(r, g.data)
    /\ ret' = [ret EXCEPT ![r] = g.data]
    /\ queue' = [queue EXCEPT ![i] = g.queue]
    /\ lastRead' = [lastRead EXCEPT ![r] =
                        IF g.queue = <<>> THEN "left_empty" ELSE "left_more"]
    /\ deqBy' = IF g.hit
                THEN [deqBy EXCEPT ![g.data.id] = Append(@, r)]
                ELSE deqBy

\* ------------------------------------------------------------ rendering
\* The series plt.plot(x, y[k], **c) adds for Sample d: element k + 1 of the
\* Sample against its first element, with the hints c.
Series(d, k, c) == [of |-> d, row |-> k + 1, hints |-> c]

\* c = {} if self.channels is None else self.channels[i]   (i = k - 1)
ChannelOfFirst(k) ==
    IF channels.none THEN NoHints ELSE channels.list[1]
ChannelOf(k) ==
    IF channels.none THEN NoHints ELSE channels.list[k]

\* x, *y = data: len(y) for a Sample that is not None.
YLen(v) == IF v > 0 THEN v ELSE -v
\* if np.ndim(y) == 1: y = [y].  The y-values of a data point of scalars
\* are wrapped into one series.
WrappedNever(v) == FALSE
Wrapped(v) == v < 0
\* len(y) at the loop of plot().
SeriesCount(v) == IF Wrapped(v) THEN 1 ELSE YLen(v)

\* x, *y = data raises for None, which cannot be unpacked.
UnpackableAlways(v) == TRUE
Unpackable(v) == v # NoneVal

\* plot(data): the series added to the axes and whether the method raises.
\* None cannot be unpacked; self.channels[i] raises past the end of the
\* list; the wrapped series of two or more scalars does not match the
\* scalar x, and plt.plot raises.
PlotResult(d) ==
    IF ~Unpackable(d.val)
    THEN [series |-> <<>>, raises |-> TRUE]
    ELSE LET ny == SeriesCount(d.val)
             ok == IF channels.none \/ Len(channels.list) >= ny
                   THEN ny ELSE Len(channels.list)
         IN  IF Wrapped(d.val) /\ YLen(d.val) > 1
             THEN [series |-> <<>>, raises |-> TRUE]
             ELSE [series |-> [k \in 1..ok |-> Series(d, k, ChannelOf(k))],
                   raises |-> ok < ny]

PlotRaises(d) == PlotResult(d).raises

\* The number of leading entries of plt_kwargs that can be applied:
\* getattr(plt, attribute) raises for a name pyplot does not have.
RECURSIVE Applicable(_)
Applicable(kw) ==
    IF kw = <<>> \/ Head(kw).attr \notin PltAttributes
    THEN 0
    ELSE 1 + Applicable(Tail(kw))

\* any('label' in c for c in self.channels), channels not None
NeedsLegend ==
    /\ ~channels.none
    /\ \E k \in 1..Len(channels.list) : channels.list[k].label

\* apply_plt_kwargs(): the calls made, in order, and whether it raises.
ApplyResult ==
    LET n == Applicable(plt_kwargs)
        done == [k \in 1..n |-> Call(plt_kwargs[k].attr, plt_kwargs[k].args)]
    IN  IF n < Len(plt_kwargs)
        THEN [calls |-> done, legend |-> FALSE, raises |-> TRUE]
        ELSE [calls |-> IF NeedsLegend
                        THEN Append(done, Call("legend", <<>>)) ELSE done,
              legend |-> NeedsLegend,
              raises |-> FALSE]

\* if self.clear_axes: plt.cla()
Clears == clear_axes

\* The drawing part of animate for the fetched Sample d on axes holding the
\* series ax with legend lg: plt.cla(); self.plot(data);
\* self.apply_plt_kwargs().
DrawResultApplyFirst(d, ax, lg) ==
    LET p == PlotResult(d)
        a == ApplyResult
    IN  [axes |-> (IF Clears THEN <<>> ELSE ax) \o p.series,
         legend |-> ((~Clears /\ lg) \/ (~p.raises /\ a.legend)),
         calls |-> a.calls
                     \o (IF Clears THEN <<Call("cla", <<>>)>> ELSE <<>>)
                     \o [k \in 1..Len(p.series) |-> Call("plot", <<k + 1>>)],
         raises |-> (p.raises \/ a.raises)]
DrawResult(d, ax, lg) ==
    LET p == PlotResult(d)
        a == ApplyResult
    IN  [axes |-> (IF Clears THEN <<>> ELSE ax) \o p.series,
         legend |-> ((~Clears /\ lg) \/ (~p.raises /\ a.legend)),
         calls |-> (IF Clears THEN <<Call("cla", <<>>)>> ELSE <<>>)
                     \o [k \in 1..Len(p.series) |-> Call("plot", <<k + 1>>)]
                     \o (IF p.raises THEN <<>> ELSE a.calls),
         raises |-> (p.raises \/ a.raises)]

\* ------------------------------------------------------------- start()
Started == {i \in Workers : proc[i] # "none"}

\* The queue the handle refers to after the start() that makes worker n.
StartQueueKeep(n) == IF data_queue = 0 THEN n ELSE data_queue
StartQueue(n) == n

\* self._data_queue = Queue(); self._show_process = Process(target=self.show,
\* args=(self._data_queue,)); self._show_process.start()
\* The worker gets a copy of the handle as it is now, _data included.
\* show() in the worker: apply_plt_kwargs() once, then plt.show(); a
\* directive that raises ends the worker before its first tick.
StartCall ==
    LET n == Cardinality(Started) + 1 IN
    /\ n \in Workers
    /\ data_queue' = StartQueue(n)
    /\ show_process' = n
    /\ queue' = [queue EXCEPT ![n] = <<>>]
    /\ proc' = [proc EXCEPT ![n] =
                    IF ApplyResult.raises THEN "crashed" ELSE "running"]
    /\ wpc' = [wpc EXCEPT ![n] = "idle"]
    /\ data' = [data EXCEPT ![n] = data[Producer]]
    /\ legend' = [legend EXCEPT ![n] = ApplyResult.legend]
    /\ pltCalls' = [pltCalls EXCEPT ![n] = ApplyResult.calls]
    /\ UNCHANGED <<configVars, axes>>

Usable == bound /\ ~destroyed

\* A direct call of start() by the caller.
Start ==
    /\ Usable
    /\ StartCall
    /\ raised' = "none"
    /\ UNCHANGED <<bound, scope, exitExc, destroyed, delCalls, closed, joined,
                   drawn, ret, lastRead, setLog, deqBy>>

\* __enter__: self.start(); return self
Enter ==
    /\ Usable
    /\ scope = "none"
    /\ StartCall
    /\ scope' = "inside"
    /\ raised' = "none"
    /\ UNCHANGED <<bound, exitExc, destroyed, delCalls, closed, joined, drawn,
                   ret, lastRead, setLog, deqBy>>

\* __exit__(exc_type, exc_val, exc_tb): `del self` unbinds the method's own
\* local name and touches nothing else; the method returns None, so an
\* exception of the with-body propagates.
Exit(exc) ==
    /\ scope = "inside"
    /\ scope' = "exited"
    /\ exitExc' = exc
    /\ UNCHANGED <<bound, destroyed, data_queue, show_process, delCalls,
                   raised, queue, closed, proc, joined, wpc, drawn, readVars,
                   setLog, deqBy, configVars, renderVars>>

\* The caller drops its last reference to the handle (the with-statement
\* itself holds one while the scope is open).
Release ==
    /\ bound
    /\ scope # "inside"
    /\ bound' = FALSE
    /\ UNCHANGED <<scope, exitExc, destroyed, data_queue, show_process,
                   delCalls, raised, queue, closed, proc, joined, wpc, drawn,
                   readVars, setLog, deqBy, configVars, renderVars>>

\* ------------------------------------------------------------- __del__
\* if self._data_queue is not None: close();
\* if self._show_process is not None: terminate(); join()
DelCallsNoTerminate(q, p) ==
    (IF q # 0 THEN <<"close">> ELSE <<>>) \o (IF p # 0 THEN <<"join">> ELSE <<>>)
DelCallsOf(q, p) ==
    (IF q # 0 THEN <<"close">> ELSE <<>>)
        \o (IF p # 0 THEN <<"terminate", "join">> ELSE <<>>)

Has(seq, x) == \E k \in 1..Len(seq) : seq[k] = x

\* The runtime may run the destructor once no reference is left.
\* join() returns only for a process that has ended.
Del ==
    LET calls == DelCallsOf(data_queue, show_process)
        ended == Has(calls, "terminate") \/ proc[show_process] # "running" IN
    /\ ~bound
    /\ ~destroyed
    /\ Has(calls, "join") => ended
    /\ destroyed' = TRUE
    /\ delCalls' = calls
    /\ closed' = IF Has(calls, "close")
                 THEN [closed EXCEPT ![data_queue] = TRUE] ELSE closed
    /\ proc' = IF Has(calls, "terminate")
               THEN [proc EXCEPT ![show_process] = "terminated"] ELSE proc
    /\ joined' = IF Has(calls, "join")
                 THEN [joined EXCEPT ![show_process] = TRUE] ELSE joined
    /\ UNCHANGED <<bound, scope, exitExc, data_queue, show_process, raised,
                   queue, wpc, drawn, readVars, setLog, deqBy, configVars,
                   renderVars>>

\* ------------------------------------------------ the producer's `data`
\* dm.data = value: self._data_queue.put(value); on a handle that was never
\* started _data_queue is None and the attribute access raises.
Set(v) ==
    /\ Usable
    /\ Len(setLog) < MaxSets
    /\ IF data_queue = 0
       THEN /\ raised' = "AttributeError"
            /\ UNCHANGED <<queue, lastRead, setLog>>
       ELSE /\ ~PutBlocks(queue[data_queue])
            /\ raised' = "none"
            /\ queue' = [queue EXCEPT ![data_queue] =
                            QueuePut(@, Item(Len(setLog) + 1, v))]
            /\ lastRead' = [r \in Readers |-> "none"]
            /\ setLog' = Append(setLog, [val |-> v, q |-> data_queue,
                                          live |-> proc[data_queue] = "running"])
    /\ UNCHANGED <<handleVars, closed, proc, joined, wpc, drawn, data, ret,
                   deqBy, configVars, renderVars>>

\* dm.data read in the caller's process; on a handle that was never started
\* None.get raises AttributeError, which the except clause does not name.
Get ==
    /\ Usable
    /\ IF data_queue = 0
       THEN IF Swallowed("AttributeError")
            THEN /\ raised' = "none"
                 /\ ret' = [ret EXCEPT ![Producer] = data[Producer]]
                 /\ UNCHANGED <<queue, data, lastRead, deqBy>>
            ELSE /\ raised' = "AttributeError"
                 /\ UNCHANGED <<queue, readVars, deqBy>>
       ELSE /\ ReadData(Producer, data_queue)
            /\ raised' = "none"
    /\ UNCHANGED <<handleVars, closed, proc, joined, wpc, drawn, setLog,
                   configVars, renderVars>>

\* ------------------------------------------------- the worker: animate
\* The animation timer fires: animate(i) is called.
TickStart(i) ==
    /\ proc[i] = "running"
    /\ wpc[i] = "idle"
    /\ wpc' = [wpc EXCEPT ![i] = "get"]
    /\ UNCHANGED <<handleVars, raised, queue, closed, proc, joined, drawn,
                   readVars, setLog, deqBy, configVars, renderVars>>

\* data = self.data
AnimateGet(i) ==
    /\ proc[i] = "running"
    /\ wpc[i] = "get"
    /\ ReadData(i, i)
    /\ wpc' = [wpc EXCEPT ![i] = "draw"]
    /\ UNCHANGED <<handleVars, raised, closed, proc, joined, drawn, setLog,
                   configVars, renderVars>>

\* animate has no try/except: an exception of plot or apply_plt_kwargs
\* leaves the timer callback, and no further tick follows.
ProcAfterDrawCaught(raises) == "running"
ProcAfterDraw(raises) == IF raises THEN "crashed" ELSE "running"

\* plt.cla(); self.plot(data); self.apply_plt_kwargs()
\* Axes that are never cleared hold at most MaxLines series.
AnimateDraw(i) ==
    LET r == DrawResult(ret[i], axes[i], legend[i]) IN
    /\ proc[i] = "running"
    /\ wpc[i] = "draw"
    /\ Clears \/ Len(r.axes) <= MaxLines
    /\ wpc' = [wpc EXCEPT ![i] = "idle"]
    /\ axes' = [axes EXCEPT ![i] = r.axes]
    /\ legend' = [legend EXCEPT ![i] = r.legend]
    /\ pltCalls' = [pltCalls EXCEPT ![i] = r.calls]
    /\ proc' = [proc EXCEPT ![i] = ProcAfterDraw(r.raises)]
    /\ drawn' = IF r.raises THEN drawn ELSE [drawn EXCEPT ![i] = ret[i]]
    /\ UNCHANGED <<handleVars, raised, queue, closed, joined, readVars,
                   setLog, deqBy, configVars>>

Worker(i) == TickStart(i) \/ AnimateGet(i) \/ AnimateDraw(i)

Next ==
    \/ Start
    \/ Enter
    \/ \E exc \in BOOLEAN : Exit(exc)
    \/ Release
    \/ Del
    \/ \E v \in 1..MaxVal : Set(v)
    \/ Get
    \/ \E i \in Workers : TickStart(i)
    \/ \E i \in Workers : AnimateGet(i)
    \/ \E i \in Workers : AnimateDraw(i)

Spec == Init /\ [][Next]_vars

\* The animation timer keeps firing and a started callback keeps running
\* while the worker process lives.
LiveSpec == Spec /\ \A i \in Workers : WF_vars(Worker(i))

\* Scoped usage, the use the class documents (`with DataMonitor(...) as dm`):
\* the handle is started by __enter__ only, never by a direct start().
ScopedNext ==
    \/ Enter
    \/ \E exc \in BOOLEAN : Exit(exc)
    \/ Release
    \/ Del
    \/ \E v \in 1..MaxVal : Set(v)
    \/ Get
    \/ \E i \in Workers : TickStart(i)
    \/ \E i \in Workers : AnimateGet(i)
    \/ \E i \in Workers : AnimateDraw(i)

ScopedSpec == Init /\ [][ScopedNext]_vars

ScopedLiveSpec == ScopedSpec /\ \A i \in Workers : WF_vars(Worker(i))

\* Rendering: every kind of constructor argument and of initial Sample, in
\* an open scope whose producer only sets Samples of rows (as __main__ does).  Channel lists as in __main__ (labels, a colour), without labels,
\* and a single descriptor; plt_kwargs empty, valid, and with an attribute
\* pyplot does not have.
ChannelChoices ==
    { NoChannels,
      ChannelList(<<Hints(TRUE, FALSE)>>),
      ChannelList(<<Hints(TRUE, FALSE), Hints(TRUE, TRUE)>>),
      ChannelList(<<NoHints, Hints(FALSE, TRUE)>>) }
KwargChoices ==
    { <<>>,
      <<Directive("xlim", <<0, 200>>), Directive("ylim", <<-3, 3>>)>>,
      <<Directive("xlim", <<0, 200>>), Directive("zlim", <<0, 1>>)>> }
SampleVals == RowVals \cup ScalarVals

RenderInit ==
    \E d \in SampleVals \cup {NoneVal}, ch \in ChannelChoices,
       cl \in BOOLEAN, kw \in KwargChoices :
        Constructed(d, ch, cl, kw)

RenderNext ==
    \/ Enter
    \/ \E v \in RowVals : Set(v)
    \/ \E i \in Workers : TickStart(i)
    \/ \E i \in Workers : AnimateGet(i)
    \/ \E i \in Workers : AnimateDraw(i)

RenderSpec == RenderInit /\ [][RenderNext]_vars

\* ================================================================ claims
\* Helpers of the statements below.
Min(S) == CHOOSE m \in S : \A k \in S : m <= k
Sets == 1..Len(setLog)
SetItem(n) == Item(n, setLog[n].val)
\* The values put on queue i and not dequeued by anyone.
Unread(i) == {n \in Sets : setLog[n].q = i /\ deqBy[n] = <<>>}
\* The step is a read of `data` by worker i (the fetch of a render tick).
Fetch(i) == wpc[i] = "get" /\ wpc'[i] = "draw"
\* The step is the drawing part of worker i's tick.
Draw(i) == wpc[i] = "draw" /\ wpc'[i] = "idle"
\* The queue reader r reads from: its own for a worker, the handle's for
\* the producer.
QueueOf(r) == IF r = Producer THEN data_queue ELSE r
\* The step is a read of `data` by reader r on a started handle.
Read(r) ==
    IF r = Producer THEN Get /\ data_queue # 0 ELSE AnimateGet(r)

\* ---------------------------------------------------------------- C1
\* C1 (as claimed): once the scope entered by __enter__ has been exited,
\* normally or through an exception, the worker it spawned is not alive,
\* also while the caller still holds the handle.
C1_ExitTerminatesWorker ==
    (scope = "exited" /\ Cardinality(Started) = 1) => proc[1] # "running"

\* ---------------------------------------------------------------- C2
\* C2 (as claimed): at every render tick at which the queue is non-empty the
\* worker fetches the most recently enqueued value.
C2_FetchesNewest ==
    [][\A i \in Workers :
         (Fetch(i) /\ queue[i] # <<>>) => ret'[i] = queue[i][Len(queue[i])]]_vars

\* C2 (amended): at every render tick at which the queue is non-empty the
\* worker fetches the oldest value that was set on its queue and not yet
\* dequeued, removes exactly that value, and the tick renders it.
C2_FetchesOldestUnread ==
    [][\A i \in Workers :
         /\ (Fetch(i) /\ queue[i] # <<>>) =>
               /\ Unread(i) # {}
               /\ ret'[i] = SetItem(Min(Unread(i)))
               /\ data'[i] = ret'[i]
               /\ deqBy'[Min(Unread(i))] = <<i>>
         /\ (Draw(i) /\ proc'[i] = "running") => drawn'[i] = ret[i]]_vars

\* A worker has fetched a value while a newer one was queued behind it.
C2_Witness ==
    \E i \in Workers : wpc[i] = "draw" /\ ret[i].id >= 1 /\ queue[i] # <<>>

C4_GetReturnsSetValue ==
    [][\A r \in Readers :
         (Read(r) /\ setLog # <<>> /\ Cardinality(Started) = 1) =>
             (ret'[r].id \in Sets /\ ret'[r] = SetItem(ret'[r].id))]_vars

\* C4 (amended): every read of `data` returns either a value that was passed
\* to an earlier set() or the initial data the reader was constructed with,
\* never anything else; and the values returned by successive reads of one
\* reader appear in the order in which they were set.
C4_SetOrInitialInOrder ==
    /\ [](\A r \in Readers :
            ret[r] # NoRet =>
                \/ ret[r].id = 0
                \/ ret[r].id \in Sets /\ ret[r] = SetItem(ret[r].id))
    /\ [][\A r \in Readers :
            (Read(r) /\ ret[r] # NoRet) => ret'[r].id >= ret[r].id]_vars

\* One reader dequeued the first and the second value that were set.
C4_Witness ==
    /\ Len(setLog) >= 2
    /\ \E r \in Readers : deqBy[1] = <<r>> /\ deqBy[2] = <<r>>

\* ---------------------------------------------------------------- C5
\* C5: a read of `data` on a started handle whose queue is empty raises
\* nothing, returns the reader's last-known value (the initial data when no
\* value was ever dequeued), and leaves last-known value and queues as they
\* were.
C5_TimeoutSwallowed ==
    [][\A r \in Readers :
         (Read(r) /\ queue[QueueOf(r)] = <<>>) =>
             /\ r = Producer => raised' = "none"
             /\ ret'[r] = data[r]
             /\ data'[r] = data[r]
             /\ queue' = queue
             /\ deqBy' = deqBy
             /\ (\A n \in 1..MaxSets : deqBy[n] = <<>>) => ret'[r].id = 0]_vars

\* The producer read `data` on a started handle, the read timed out and
\* returned the initial data.
C5_Witness ==
    /\ data_queue # 0
    /\ raised = "none"
    /\ ret[Producer] # NoRet
    /\ ret[Producer].id = 0
    /\ lastRead[Producer] = "left_empty"

\* ---------------------------------------------------------------- C6
\* C6: on a started handle set() is enabled whatever the queue length and
\* whatever the worker does (up to the number of set() calls of a run); each
\* set() appends exactly one element at the tail of the handle's queue and
\* leaves the other queues alone; and no value is dropped: each queue holds
\* exactly the values put on it that nobody dequeued.
C6_SetNeverBlocks ==
    /\ []((Usable /\ data_queue # 0 /\ Len(setLog) < MaxSets) =>
            ENABLED (\E v \in 1..MaxVal : Set(v)))
    /\ [](\A i \in Workers : Len(queue[i]) = Cardinality(Unread(i)))
    /\ [][setLog' # setLog =>
            /\ Len(setLog') = Len(setLog) + 1
            /\ queue'[data_queue] =
                  Append(queue[data_queue],
                         Item(Len(setLog'), setLog'[Len(setLog')].val))
            /\ \A i \in Workers : i # data_queue => queue'[i] = queue[i]]_vars

\* Every value of the run is unread in the queue of a running worker.
C6_Witness ==
    \E i \in Workers : Len(queue[i]) >= MaxSets /\ proc[i] = "running"

\* ---------------------------------------------------------------- C7
\* C7 (as claimed): every value is dequeued at most once, and only render
\* workers dequeue: no read in the producer's process removes a value.
C7_OnlyWorkerDequeues ==
    \A n \in 1..MaxSets :
        /\ Len(deqBy[n]) <= 1
        /\ \A k \in 1..Len(deqBy[n]) : deqBy[n][k] # Producer

\* C7 (amended): every value passed to set() is dequeued at most once over
\* the whole run, either by the render worker of the queue it was put on or
\* by a read of `data` in the producer's process; a dequeued value is in no
\* queue any more, so a value the producer read never reaches the worker.
C7_DequeuedOnceByWorkerOrProducer ==
    /\ \A n \in 1..MaxSets :
        /\ Len(deqBy[n]) <= 1
        /\ n \notin Sets => deqBy[n] = <<>>
        /\ \A k \in 1..Len(deqBy[n]) : deqBy[n][k] \in {Producer, setLog[n].q}
    /\ \A i \in Workers : \A k \in 1..Len(queue[i]) :
        deqBy[queue[i][k].id] = <<>>

\* A read of `data` in the producer's process took a value from the queue.
C7_Witness == \E n \in Sets : deqBy[n] = <<Producer>>

\* ---------------------------------------------------------------- C8
\* C8: while the worker lives, every render tick that has started ends (it
\* returns to the idle timer, or the tick's plot raises), also when the
\* queue is empty and nothing is set any more; a fetch on an empty queue
\* hands the tick the Sample the worker held before, and the tick draws it.
C8_TickNeverBlocks ==
    /\ \A i \in Workers :
        (proc[i] = "running" /\ wpc[i] # "idle")
            ~> (wpc[i] = "idle" \/ proc[i] # "running")
    /\ [][\A i \in Workers :
            /\ (Fetch(i) /\ queue[i] = <<>>) =>
                  (ret'[i] = data[i] /\ data'[i] = data[i])
            /\ (Draw(i) /\ ~PlotRaises(ret[i])) =>
                  (drawn'[i] = ret[i] /\ proc'[i] = "running")]_vars

\* A tick has ended on a queue that never held a value, having drawn the
\* initial Sample.
C8_Witness ==
    \E i \in Workers :
        /\ proc[i] = "running"
        /\ wpc[i] = "idle"
        /\ setLog = <<>>
        /\ drawn[i] # NoRet
        /\ drawn[i].id = 0

\* ---------------------------------------------------------------- C9
\* C9: after a second start() two workers exist and the handle refers to the
\* last queue and the last worker only; every set() from then on puts its
\* value on the last queue, and the queue of an earlier start() never
\* receives another value.
C9_SecondStartOrphansFirst ==
    /\ [](Cardinality(Started) >= 2 =>
            /\ \A i \in 1..Cardinality(Started) : proc[i] # "none"
            /\ data_queue = Cardinality(Started)
            /\ show_process = Cardinality(Started))
    /\ [][/\ \A i \in Workers :
              i < Cardinality(Started) => Len(queue'[i]) <= Len(queue[i])
          /\ (setLog' # setLog /\ Cardinality(Started) >= 2) =>
              /\ setLog'[Len(setLog')].q = Cardinality(Started)
              /\ Len(queue'[Cardinality(Started)])
                    = Len(queue[Cardinality(Started)]) + 1]_vars

\* A value was set before the second start() and one after it.
C9_Witness ==
    /\ Cardinality(Started) = 2
    /\ \E n, m \in Sets : n < m /\ setLog[n].q = 1 /\ setLog[m].q = 2

\* ---------------------------------------------------------------- C10
\* C10: the destructor of a started handle closes the queue, terminates the
\* worker and joins it, in this order, and from then on the queue is closed
\* and the worker is not alive; on a handle that was never started it makes
\* no call and changes nothing.
C10_DestructorCleansUp ==
    /\ [][(~destroyed /\ destroyed') =>
            IF show_process = 0
            THEN /\ data_queue = 0
                 /\ delCalls' = <<>>
                 /\ <<closed, proc, joined, queue, raised>>'
                        = <<closed, proc, joined, queue, raised>>
            ELSE /\ delCalls' = <<"close", "terminate", "join">>
                 /\ closed'[data_queue]
                 /\ proc'[show_process] = "terminated"
                 /\ joined'[show_process]
                 /\ raised' = raised]_vars
    /\ []((destroyed /\ show_process # 0) =>
            /\ closed[data_queue]
            /\ proc[show_process] = "terminated"
            /\ joined[show_process])

\* The destructor ran on a started handle whose worker was still running a
\* tick.
C10_Witness ==
    /\ destroyed
    /\ show_process # 0
    /\ wpc[show_process] # "idle"
    /\ proc[show_process] = "terminated"

\* ---------------------------------------------------------------- C11
\* The drawing of worker i's tick raises in this step.
DrawRaises(i) ==
    Draw(i) /\ DrawResult(ret[i], axes[i], legend[i]).raises
\* The values set on the queue of a worker that had crashed before.
SetAfterCrash == {n \in Sets : ~setLog[n].live /\ proc[setLog[n].q] = "crashed"}

\* C11 (as claimed): the values set after the worker's crash stay unread in
\* the queue.
C11_SetAfterCrashStaysQueued ==
    \A n \in SetAfterCrash : deqBy[n] = <<>>

\* C11 (amended): a tick whose plot or formatting raises ends the worker,
\* which performs no further tick; the handle shows no error (its fields and
\* the outcome of the producer's last operation are untouched by the crash),
\* every later set() succeeds and enqueues, and the values set after the
\* crash are never read by the worker: they stay in the queue unless a read
\* of `data` in the producer's process takes them.
C11_CrashIsSilent ==
    /\ [][\A i \in Workers :
            /\ DrawRaises(i) =>
                /\ proc'[i] = "crashed"
                /\ <<handleVars, raised, queue>>' = <<handleVars, raised, queue>>
            /\ proc[i] = "crashed" =>
                /\ proc'[i] \in {"crashed", "terminated"}
                /\ <<wpc[i], drawn[i], axes[i], pltCalls[i], data[i]>>'
                      = <<wpc[i], drawn[i], axes[i], pltCalls[i], data[i]>>
            /\ (setLog' # setLog /\ proc[data_queue] = "crashed") =>
                /\ raised' = "none"
                /\ queue'[data_queue] =
                      Append(queue[data_queue],
                             Item(Len(setLog'), setLog'[Len(setLog')].val))]_vars
    /\ []((Usable /\ data_queue # 0 /\ Len(setLog) < MaxSets) =>
            ENABLED (\E v \in 1..MaxVal : Set(v)))
    /\ [](\A n \in SetAfterCrash :
            /\ deqBy[n] \in {<<>>, <<Producer>>}
            /\ deqBy[n] = <<>> =>
                 \E k \in 1..Len(queue[setLog[n].q]) :
                     queue[setLog[n].q][k] = SetItem(n))

\* A value set after the worker's crash is still queued, and the handle
\* shows no error.
C11_Witness ==
    /\ Usable
    /\ raised = "none"
    /\ \E n \in SetAfterCrash : deqBy[n] = <<>>

\* ---------------------------------------------------------------- C12
\* The pyplot calls of one drawing that plots n series and, when `all`,
\* goes on to the formatting: cla iff clear_axes, the plots of elements
\* 2..n+1, every directive in its order, legend iff a channel has a label.
TickCalls(n, all) ==
    (IF clear_axes THEN <<Call("cla", <<>>)>> ELSE <<>>)
      \o [k \in 1..n |-> Call("plot", <<k + 1>>)]
      \o (IF all
          THEN [k \in 1..Len(plt_kwargs) |->
                   Call(plt_kwargs[k].attr, plt_kwargs[k].args)]
                 \o (IF /\ ~channels.none
                        /\ \E k \in 1..Len(channels.list) :
                              channels.list[k].label
                     THEN <<Call("legend", <<>>)>> ELSE <<>>)
          ELSE <<>>)

\* C12: a tick fetches through the data getter first and then draws the
\* fetched Sample: it clears the axes iff clear_axes, plots all series of the
\* Sample, applies every formatting directive in order and draws the legend
\* iff channels is a list with some label, in this order (a tick that raises
\* stops within the plotting).  With clear_axes the axes afterwards hold
\* exactly the series of the Sample fetched in this tick; without it the
\* series of the earlier ticks remain, followed by the new ones.
C12_TickOrder ==
    [][\A i \in Workers :
        /\ Fetch(i) =>
              ret'[i] = DataGetter(data[i], queue[i]).data
        /\ Draw(i) =>
              \E n \in 0..MaxVal :
                /\ proc'[i] = "running" =>
                      /\ n = SeriesCount(ret[i].val)
                      /\ drawn'[i] = ret[i]
                /\ pltCalls'[i] = TickCalls(n, proc'[i] = "running")
                /\ axes'[i] =
                      (IF clear_axes THEN <<>> ELSE axes[i])
                        \o [k \in 1..n |-> Series(ret[i], k, ChannelOf(k))]]_vars

\* Axes that are never cleared hold the series of two different Samples
\* after a tick that went through all five steps.
C12_Witness ==
    \E i \in Workers :
        /\ proc[i] = "running"
        /\ wpc[i] = "idle"
        /\ ~clear_axes
        /\ \E j, k \in 1..Len(axes[i]) : axes[i][j].of # axes[i][k].of
        /\ Len(pltCalls[i]) >= 4
        /\ pltCalls[i][Len(pltCalls[i])] = Call("legend", <<>>)

\* ---------------------------------------------------------------- C13
\* The series of elements 2..n+1 of Sample d against its first element.
SeriesOf(d, n) == [k \in 1..n |-> Series(d, k, ChannelOf(k))]
\* The axes' content a drawing of worker i starts from.
KeptAxes(i) == IF clear_axes THEN <<>> ELSE axes[i]
\* The channel descriptors cover n series.
ChannelsCover(n) == channels.none \/ Len(channels.list) >= n

\* C13 (as claimed): for every Sample of n >= 2 elements, rows or a data
\* point of scalars, one tick draws exactly n-1 series, the k-th plotting
\* element k+1 against element 1.
C13_SeriesCountIsLengthMinusOne ==
    [][\A i \in Workers :
        (Draw(i) /\ ret[i].val # NoneVal) =>
            /\ proc'[i] = "running"
            /\ axes'[i] = KeptAxes(i) \o SeriesOf(ret[i], YLen(ret[i].val))]_vars

\* C13 (amended): for a Sample of n >= 2 elements that are rows of equal
\* length, or that is a data point of exactly two scalars, and channels that
\* are None or list at least n-1 descriptors, one tick draws exactly n-1
\* series, the k-th plotting element k+1 against element 1.  A data point of
\* three or more scalars draws no series and the tick raises; a channel
\* list shorter than n-1 draws as many series as it has descriptors and the
\* tick raises.
C13_SeriesCountOfRows ==
    [][\A i \in Workers :
        (Draw(i) /\ ret[i].val # NoneVal) =>
            LET v == ret[i].val
                n == YLen(v)
            IN  /\ (ChannelsCover(n) /\ (v > 0 \/ n = 1)) =>
                    /\ proc'[i] = "running"
                    /\ axes'[i] = KeptAxes(i) \o SeriesOf(ret[i], n)
                /\ (v < 0 /\ n > 1) =>
                    /\ proc'[i] = "crashed"
                    /\ axes'[i] = KeptAxes(i)
                /\ (v > 0 /\ ~ChannelsCover(n)) =>
                    /\ proc'[i] = "crashed"
                    /\ axes'[i] = KeptAxes(i)
                                    \o SeriesOf(ret[i], Len(channels.list))]_vars

\* The first tick drew the initial Sample of three rows with two channel
\* descriptors as two series while nothing was set.
C13_Witness ==
    \E i \in Workers :
        /\ setLog = <<>>
        /\ ~channels.none /\ Len(channels.list) = 2
        /\ drawn[i] = Item(0, 2)
        /\ axes[i] = <<Series(drawn[i], 1, channels.list[1]),
                       Series(drawn[i], 2, channels.list[2])>>

\* ---------------------------------------------------------------- C14
\* The series the drawing step of worker i adds to its axes.
Added(i) == SubSeq(axes'[i], Len(KeptAxes(i)) + 1, Len(axes'[i]))
\* The hints the k-th series of a tick is to carry.
HintsFor(k) == IF channels.none THEN NoHints ELSE channels.list[k]

\* C14 (as claimed): with channels None the tick succeeds for every Sample,
\* plots all its y-series without hints and draws no legend.
C14_NoChannelsAlwaysSucceeds ==
    [][\A i \in Workers :
        (Draw(i) /\ channels.none /\ ret[i].val # NoneVal) =>
            /\ proc'[i] = "running"
            /\ Len(Added(i)) = YLen(ret[i].val)
            /\ \A k \in 1..Len(Added(i)) : Added(i)[k].hints = NoHints
            /\ ~legend'[i]]_vars

\* C14 (amended): in every tick the k-th series is plotted with exactly the
\* hints of channel descriptor k when channels is a list and with no hints
\* when channels is None; with channels None the tick succeeds for every
\* Sample of rows and for a data point of two scalars, plots all its
\* y-series and draws no legend (for a data point of three or more scalars
\* the tick raises whatever channels is).
C14_ChannelsAligned ==
    /\ [][\A i \in Workers :
            Draw(i) =>
              /\ \A k \in 1..Len(Added(i)) :
                    /\ Added(i)[k].row = k + 1
                    /\ Added(i)[k].of = ret[i]
                    /\ Added(i)[k].hints = HintsFor(k)
              /\ (/\ channels.none
                  /\ ret[i].val # NoneVal
                  /\ ret[i].val > 0 \/ YLen(ret[i].val) = 1) =>
                    /\ proc'[i] = "running"
                    /\ Len(Added(i)) = YLen(ret[i].val)
                    /\ \A k \in 1..Len(pltCalls'[i]) :
                          pltCalls'[i][k].op # "legend"
              /\ (ret[i].val < 0 /\ YLen(ret[i].val) > 1) =>
                    proc'[i] = "crashed"]_vars
    /\ [](channels.none => \A i \in Workers : ~legend[i])

\* With channels None and formatting directives a tick drew both series of
\* a Sample of three rows, without hints and without a legend.
C14_Witness ==
    \E i \in Workers :
        /\ channels.none
        /\ plt_kwargs # <<>>
        /\ proc[i] = "running"
        /\ drawn[i].val = 2
        /\ clear_axes
        /\ axes[i] = <<Series(drawn[i], 1, NoHints), Series(drawn[i], 2, NoHints)>>
        /\ ~legend[i]

\* ---------------------------------------------------------------- C15
\* The values dequeued in this step.
DequeuedNow == {n \in 1..Len(setLog') : n \in Sets /\ deqBy'[n] # deqBy[n]}
\* The values worker i has dequeued.
DequeuedBy(i) == {n \in Sets : deqBy[n] = <<i>>}
\* No read of `data` in the producer's process has dequeued a value.
ProducerTookNone == \A n \in Sets : deqBy[n] # <<Producer>>

\* C15: when no producer-side read has dequeued a value, the values the
\* worker has dequeued are the first k values passed to set(), and each
\* fetch dequeues the next one in set() order or nothing; a tick dequeues
\* at most one value, and only in its fetch.  Under fair ticking, every
\* value that was set and waits in the queue is eventually rendered unless
\* the worker stops running or the producer's own read takes the value.
C15_FifoOnePerTick ==
    /\ [](ProducerTookNone =>
            \A i \in Workers : \A n \in DequeuedBy(i) :
                \A m \in 1..n : setLog[m].q = i => m \in DequeuedBy(i))
    /\ [][\A i \in Workers :
            /\ (TickStart(i) \/ Fetch(i) \/ Draw(i)) =>
                    /\ Cardinality(DequeuedNow) <= 1
                    /\ (~Fetch(i)) => DequeuedNow = {}
            /\ (Fetch(i) /\ ProducerTookNone) =>
                    \A n \in DequeuedNow :
                        /\ deqBy'[n] = <<i>>
                        /\ ret'[i] = SetItem(n)
                        /\ n = Min({m \in Sets : setLog[m].q = i}
                                      \ DequeuedBy(i))]_vars
    /\ \A n \in 1..MaxSets :
          (n \in Sets /\ deqBy[n] = <<>>) ~>
              /\ n \in Sets
              /\ \/ drawn[setLog[n].q] = SetItem(n)
                 \/ proc[setLog[n].q] # "running"
                 \/ deqBy[n] = <<Producer>>

\* The worker dequeued the two values that were set, in set() order, and
\* rendered the second one; the producer dequeued nothing.
C15_Witness ==
    \E i \in Workers :
        /\ Len(setLog) >= 2
        /\ ProducerTookNone
        /\ DequeuedBy(i) = {1, 2}
        /\ proc[i] = "running"
        /\ scope = "inside"
        /\ drawn[i] = SetItem(2)

\* ---------------------------------------------------------------- C16
\* C16: a worker whose handle copy holds no Sample (data is None) and whose
\* queue is empty at a tick gets None from the getter without an error (the
\* timeout is swallowed), the plot of None raises and ends the worker; the
\* worker has rendered nothing and renders nothing afterwards, and it never
\* dequeues or renders a value that was set.
C16_NoSampleCrashesWorker ==
    /\ [][\A i \in Workers :
            /\ (Fetch(i) /\ data[i].val = NoneVal /\ queue[i] = <<>>) =>
                  /\ ret'[i] = data[i]
                  /\ proc'[i] = "running"
            /\ (Draw(i) /\ ret[i].val = NoneVal) =>
                  /\ proc'[i] = "crashed"
                  /\ axes'[i] = KeptAxes(i)
                  /\ drawn'[i] = drawn[i]
            /\ (proc[i] = "crashed" /\ data[i].val = NoneVal) =>
                  /\ proc'[i] # "running"
                  /\ drawn'[i] = drawn[i]
                  /\ data'[i] = data[i]]_vars
    /\ [](\A i \in Workers :
            (proc[i] = "crashed" /\ data[i].val = NoneVal) =>
                /\ drawn[i] = NoRet
                /\ \A n \in Sets : deqBy[n] # <<i>>)

\* The worker of a handle constructed without data has crashed without
\* rendering, and a value set afterwards waits in its queue.
C16_Witness ==
    \E i \in Workers :
        /\ proc[i] = "crashed"
        /\ data[i].val = NoneVal
        /\ drawn[i] = NoRet
        /\ \E n \in Sets :
              setLog[n].q = i /\ ~setLog[n].live /\ queue[i] = <<SetItem(n)>>

\* ---------------------------------------------------------------- C17
\* The step is a read of, or an assignment to, `data` by the producer.
DataAccess == Get \/ \E v \in 1..MaxVal : Set(v)

\* C17: on a handle that was never started (its queue is None) reading
\* `data` and assigning to `data` both raise AttributeError, which the
\* getter does not swallow; the read returns nothing, in particular not the
\* initial data, nothing is enqueued and no field of the handle changes.
\* On a started handle neither raises.
C17_DataNeedsStart ==
    /\ [][/\ (data_queue = 0 /\ DataAccess) =>
                /\ raised' = "AttributeError"
                /\ <<handleVars, queue, closed, proc, joined, wpc, drawn,
                     readVars, setLog, deqBy, configVars, renderVars>>'
                     = <<handleVars, queue, closed, proc, joined, wpc, drawn,
                         readVars, setLog, deqBy, configVars, renderVars>>
          /\ (data_queue # 0 /\ DataAccess) => raised' = "none"]_vars
    /\ [](data_queue = 0 =>
            /\ ret[Producer] = NoRet
            /\ setLog = <<>>
            /\ Usable => ENABLED Get
            /\ Usable => ENABLED (\E v \in 1..MaxVal : Set(v)))

\* An access to `data` on the unstarted handle raised; the handle holds
\* initial data, which no read returned.
C17_Witness ==
    /\ data_queue = 0
    /\ raised = "AttributeError"
    /\ data[Producer].val # NoneVal
    /\ ret[Producer] = NoRet
    /\ Started = {}

\* ---------------------------------------------------------------- C18
\* The worker and the queue the cleanup of the handle has reached: worker p
\* terminated and joined, queue q closed.
CleanedUp(q, p) == proc[p] = "terminated" /\ joined[p] /\ closed[q]

\* C18: after start() was called twice, once the scope was exited or the
\* handle destroyed, the worker of the last start() is terminated and
\* joined and the last queue closed, while the first worker was not
\* terminated or joined and the first queue not closed.
C18_CleanupReachesLastWorkerOnly ==
    (Started = {1, 2} /\ (scope = "exited" \/ destroyed)) =>
        /\ show_process = 2 /\ data_queue = 2
        /\ CleanedUp(2, 2)
        /\ proc[1] # "terminated" /\ ~joined[1] /\ ~closed[1]

\* The part of C18 about destruction alone.
C18_DestructionReachesLastWorkerOnly ==
    (Started = {1, 2} /\ destroyed) =>
        /\ show_process = 2 /\ data_queue = 2
        /\ CleanedUp(2, 2)
        /\ proc[1] # "terminated" /\ ~joined[1] /\ ~closed[1]

\* ---------------------------------------------------------------- C19
\* C19: set() leaves every last-known value as it is; a dequeue stores the
\* value as the last-known value of the process that dequeued it and leaves
\* the other processes' last-known values alone; a read by the producer
\* that dequeues nothing returns the producer's last-known value unchanged.
\* Hence the producer's last-known value and what its reads return are the
\* initial data or a value the producer itself dequeued, never a value the
\* worker dequeued.
C19_LastKnownIsPrivate ==
    /\ [][/\ setLog' # setLog => data' = data
          /\ \A n \in DequeuedNow :
                \A r \in Readers :
                    IF deqBy'[n] = <<r>>
                    THEN data'[r] = SetItem(n) /\ ret'[r] = SetItem(n)
                    ELSE data'[r] = data[r]
          /\ (Get /\ data_queue # 0 /\ DequeuedNow = {}) =>
                /\ ret'[Producer] = data[Producer]
                /\ data' = data]_vars
    /\ [](/\ data[Producer].id >= 1 =>
                deqBy[data[Producer].id] = <<Producer>>
          /\ ret[Producer].id >= 1 =>
                deqBy[ret[Producer].id] = <<Producer>>
          /\ \A i \in Workers :
                data[i].id >= 1 => deqBy[data[i].id] = <<i>>)

\* The worker dequeued the value set last, and a later read by the producer
\* returned the producer's initial data.
C19_Witness ==
    \E i \in Workers :
        /\ setLog # <<>>
        /\ deqBy[Len(setLog)] = <<i>>
        /\ data[i] = SetItem(Len(setLog))
        /\ lastRead[Producer] # "none"
        /\ ret[Producer] = data[Producer]
        /\ ret[Producer].id = 0

=============================================================================
